---- MODULE Spec2Model ----
(***************************************************************************)
(* Tabu-search course allocation (fairpyx/algorithms/tabu_search.py) and   *)
(* the search for a profitable manipulation                                *)
(* (fairpyx/algorithms/find_profitable_manipulation.py).                   *)
(*                                                                         *)
(* Prices, budgets and valuations are integers.  A bundle is a tuple of    *)
(* items, as itertools.combinations yields it; Python's None and a local   *)
(* that is not bound yet are separate values.                              *)
(***************************************************************************)
EXTENDS Integers, Sequences, FiniteSets, TLC

VARIABLES
    valuations,            \* Instance(valuations=...): agent -> item -> value
    agent_capacities,      \* Instance(agent_capacities=...): agent -> int
    item_capacities,       \* Instance(item_capacities=...): item -> int
    initial_budgets,       \* tabu_search(initial_budgets=...): agent -> budget
    prices,                \* item -> price
    delta,                 \* the step of the gradient neighbor
    history,               \* the tabu memory H
    neighbors,             \* the candidate list N(p), reset on every iteration
    allocation,            \* agent -> bundle (the local of tabu_search, or an argument)
    excess_demand_vector,  \* item -> int (the local of tabu_search, or a result)
    pc,                    \* position in tabu_search, or the function last called
    error,                 \* the exception that ended the run, "none" if none
    returned,              \* the values handed to the caller by the return statement
    utility,               \* find_profitable_manipulation(utility=...): item -> weight
    criteria,              \* find_profitable_manipulation(criteria=...)
    current_best_manipulation, \* the local of find_profitable_manipulation
    misreports,            \* the local of find_profitable_manipulation
    iterations             \* the passes of the while loop of line 363 begun so far

vars == <<valuations, agent_capacities, item_capacities, initial_budgets, prices,
          delta, history, neighbors, allocation, excess_demand_vector, pc, error, returned,
          utility, criteria, current_best_manipulation, misreports, iterations>>

manipulation_vars == <<utility, criteria, current_best_manipulation, misreports, iterations>>

instance_vars == <<valuations, agent_capacities, item_capacities, initial_budgets>>

(***************************************************************************)
(* Bounds and inputs                                                       *)
(***************************************************************************)
beta == 4
MaxAgentCapacity == 2

\* instance.agents and instance.items: the keys of the valuations and of the
\* item capacities, in the order in which the dicts were written
agents == SelectSeq(<<"ami", "tami", "tzumi">>, LAMBDA a : a \in DOMAIN valuations)
items == SelectSeq(<<"x", "y", "z">>, LAMBDA c : c \in DOMAIN item_capacities)

AgentSet == {agents[k] : k \in 1..Len(agents)}
ItemSet == {items[k] : k \in 1..Len(items)}

Run1Valuations ==
    [ami   |-> [x |-> 3, y |-> 4, z |-> 2],
     tami  |-> [x |-> 4, y |-> 3, z |-> 2],
     tzumi |-> [x |-> 2, y |-> 4, z |-> 3]]

Run3Valuations ==
    [ami   |-> [x |-> 3, y |-> 3, z |-> 3],
     tami  |-> [x |-> 3, y |-> 3, z |-> 3],
     tzumi |-> [x |-> 4, y |-> 4, z |-> 4]]

ValuationProfiles == {Run1Valuations, Run3Valuations}

AgentCapacityProfiles ==
    {[a \in AgentSet |-> c] : c \in 1..MaxAgentCapacity}
    \cup {[a \in AgentSet |-> IF a = "ami" THEN 1 ELSE MaxAgentCapacity]}

Run1ItemCapacities == [x |-> 2, y |-> 1, z |-> 3]

ItemCapacityProfiles == {Run1ItemCapacities, [x |-> 1, y |-> 1, z |-> 1]}

Run1Budgets == [ami |-> 5, tami |-> 4, tzumi |-> 3]

BudgetProfiles == {Run1Budgets, [ami |-> 1, tami |-> 2, tzumi |-> 1]}

\* random.uniform(1, 1 + beta), on the integer grid
InitialPriceGrid == 1..(1 + beta)

\* prices a caller can pass to the functions: zero included
PriceGrid == 0..(1 + beta)

(***************************************************************************)
(* Python values                                                           *)
(***************************************************************************)
None == [kind |-> "None", items |-> <<>>]
Unbound == [kind |-> "unbound", items |-> <<>>]
Tuple(combination) == [kind |-> "tuple", items |-> combination]

\* course in bundle, for a tuple
In(course, combination) == \E k \in 1..Len(combination) : combination[k] = course

Max(a, b) == IF a >= b THEN a ELSE b

(***************************************************************************)
(* Instance                                                                *)
(***************************************************************************)
RECURSIVE agent_bundle_value(_, _)
agent_bundle_value(student, combination) ==
    IF combination = <<>> THEN 0
    ELSE valuations[student][Head(combination)]
         + agent_bundle_value(student, Tail(combination))

agent_capacity(student) == agent_capacities[student]

item_capacity(course) == item_capacities[course]

(***************************************************************************)
(* itertools.combinations(seq, r): the r-length tuples of seq, in          *)
(* lexicographic order of the positions                                    *)
(***************************************************************************)
RECURSIVE combinations_from(_, _, _)
combinations_from(seq, start, r) ==
    IF r = 0 THEN << <<>> >>
    ELSE IF start > Len(seq) THEN <<>>
    ELSE LET with_head == combinations_from(seq, start + 1, r - 1)
         IN  [k \in 1..Len(with_head) |-> <<seq[start]>> \o with_head[k]]
             \o combinations_from(seq, start + 1, r)

combinations(seq, r) == combinations_from(seq, 1, r)

(***************************************************************************)
(* student_best_bundle                                                     *)
(***************************************************************************)
\* for r in range(1, capacity + 1): extend(combinations(instance.items, r))
RECURSIVE combinations_up_to(_, _)
combinations_up_to(r, capacity) ==
    IF r > capacity THEN <<>>
    ELSE combinations(items, r) \o combinations_up_to(r + 1, capacity)

combinations_courses_list(student) == combinations_up_to(1, agent_capacity(student))

\* a sort that is not stable: combinations of equal value come out reversed
combinations_courses_sorted_unstable(student, list) ==
    LET key(k) == agent_bundle_value(student, list[k])
        before(j, k) == key(j) > key(k) \/ (key(j) = key(k) /\ j > k)
        rank(k) == 1 + Cardinality({j \in 1..Len(list) : before(j, k)})
    IN  [n \in 1..Len(list) |-> list[CHOOSE k \in 1..Len(list) : rank(k) = n]]

\* sorted(list, key=valuation_function, reverse=True): descending by value,
\* and stable, so combinations of equal value keep the order of the list
combinations_courses_sorted(student, list) ==
    LET key(k) == agent_bundle_value(student, list[k])
        before(j, k) == key(j) > key(k) \/ (key(j) = key(k) /\ j < k)
        rank(k) == 1 + Cardinality({j \in 1..Len(list) : before(j, k)})
    IN  [n \in 1..Len(list) |-> list[CHOOSE k \in 1..Len(list) : rank(k) = n]]

RECURSIVE price_combination(_, _)
price_combination(p, combination) ==
    IF combination = <<>> THEN 0
    ELSE p[Head(combination)] + price_combination(p, Tail(combination))

\* a scan that forgets the budget test
first_affordable_any_price(list, p, budget) ==
    IF Len(list) = 0 THEN None ELSE Tuple(list[1])

\* the scan of the sorted list: the first combination within the budget, and
\* None (the initial value of best_bundle[student]) when there is none
first_affordable(list, p, budget) ==
    LET within == {k \in 1..Len(list) : price_combination(p, list[k]) <= budget}
    IN  IF within = {} THEN None
        ELSE Tuple(list[CHOOSE k \in within : \A j \in within : k <= j])

\* an oracle that offers a student only the items that have a seat
student_best_bundle_seats_only(p, budgets) ==
    [student \in DOMAIN valuations |->
        first_affordable(
            SelectSeq(combinations_courses_sorted(student, combinations_courses_list(student)),
                      LAMBDA combination :
                          \A k \in 1..Len(combination) : item_capacity(combination[k]) > 0),
            p, budgets[student])]

student_best_bundle(p, budgets) ==
    [student \in DOMAIN valuations |->
        first_affordable(
            combinations_courses_sorted(student, combinations_courses_list(student)),
            p, budgets[student])]

(***************************************************************************)
(* excess_demand, clipped_excess_demand                                    *)
(***************************************************************************)
\* "course in bundle" raises TypeError when the bundle is None
excess_demand_raises(alloc) ==
    Len(items) > 0 /\ \E student \in DOMAIN alloc : alloc[student].kind = "None"

\* "sum_allocation = 1" for "sum_allocation += 1"
sum_allocation_assign(course, alloc, k) ==
    IF \E j \in k..Len(agents) : In(course, alloc[agents[j]].items) THEN 1 ELSE 0

\* the inner loop: sum_allocation += 1 for every student whose bundle holds course
RECURSIVE sum_allocation(_, _, _)
sum_allocation(course, alloc, k) ==
    IF k > Len(agents) THEN 0
    ELSE (IF In(course, alloc[agents[k]].items) THEN 1 ELSE 0)
         + sum_allocation(course, alloc, k + 1)

excess_demand(alloc) ==
    [course \in ItemSet |-> sum_allocation(course, alloc, 1) - item_capacity(course)]

\* the clipping forgotten
clipped_excess_demand_unclipped(p, alloc) == excess_demand(alloc)

\* negative demand clipped at every price
clipped_excess_demand_everywhere(p, alloc) ==
    LET z == excess_demand(alloc)
    IN  [course \in DOMAIN z |-> Max(0, z[course])]

clipped_excess_demand(p, alloc) ==
    LET z == excess_demand(alloc)
    IN  [course \in DOMAIN z |->
            IF p[course] = 0 THEN Max(0, z[course]) ELSE z[course]]

\* np.linalg.norm(values) ** 2
RECURSIVE sum_squares(_, _)
sum_squares(vector, k) ==
    IF k > Len(items) THEN 0
    ELSE vector[items[k]] * vector[items[k]] + sum_squares(vector, k + 1)

sum_squares_of(vector) == sum_squares(vector, 1)

(***************************************************************************)
(* find_all_equivalent_prices                                              *)
(*                                                                         *)
(* A constraint is one of the lambdas the function appends.  A lambda      *)
(* reads agent, sorted_allocation, student and sorted_combination when it  *)
(* is called, not when it is made, so every lambda of a loop sees the      *)
(* values the loop variables had last.                                     *)
(***************************************************************************)
\* sorted(bundle), for a bundle of distinct items
sorted_list(bundle) == SelectSeq(<<"x", "y", "z">>, LAMBDA c : In(c, bundle))

\* lambda p: sum(p[key] for key in bundle) <= (or >=) initial_budgets[agent]
apply_constraint(f, p) ==
    IF f.op = "<="
    THEN price_combination(p, f.bundle) <= initial_budgets[f.agent]
    ELSE price_combination(p, f.bundle) >= initial_budgets[f.agent]

\* any([f(p) for f in history])
any_history(hist, p) == \E k \in 1..Len(hist) : apply_constraint(hist[k], p)

\* sorted(None) and agent_bundle_value(student, None) raise TypeError
find_all_equivalent_prices_raises(alloc) ==
    \E student \in DOMAIN alloc : alloc[student].kind = "None"

\* the value sorted_combination has when the second loop is over: the last
\* combination of the last student who has one
RECURSIVE last_sorted_combination(_)
last_sorted_combination(k) ==
    IF k = 0 THEN <<>>
    ELSE LET list == combinations_courses_list(agents[k])
         IN  IF Len(list) > 0 THEN sorted_list(list[Len(list)])
             ELSE last_sorted_combination(k - 1)

\* lines 212-214: one lambda per agent of the allocation, each reading the
\* last agent and the last agent's sorted bundle
affordability_constraints(alloc) ==
    LET last == agents[Len(agents)]
    IN  [k \in 1..Len(agents) |->
            [op |-> "<=", bundle |-> sorted_list(alloc[last].items), agent |-> last]]

\* lines 225-230 for one student: one lambda per combination that differs from
\* the student's bundle and is worth at least as much, each reading the last
\* student and the last combination
dominance_constraints_of(student, alloc) ==
    LET list == combinations_courses_list(student)
        chosen == SelectSeq([k \in 1..Len(list) |-> k],
                    LAMBDA k : /\ sorted_list(list[k]) # sorted_list(alloc[student].items)
                               /\ agent_bundle_value(student, list[k])
                                      >= agent_bundle_value(student, alloc[student].items))
    IN  [n \in 1..Len(chosen) |->
            [op |-> ">=", bundle |-> last_sorted_combination(Len(agents)),
             agent |-> agents[Len(agents)]]]

\* lines 217-230: for student in instance.agents
RECURSIVE dominance_constraints(_, _)
dominance_constraints(k, alloc) ==
    IF k > Len(agents) THEN <<>>
    ELSE dominance_constraints_of(agents[k], alloc) \o dominance_constraints(k + 1, alloc)

find_all_equivalent_prices(alloc) ==
    affordability_constraints(alloc) \o dominance_constraints(1, alloc)

(***************************************************************************)
(* find_gradient_neighbors                                                 *)
(***************************************************************************)
\* excess_demand_vector.get(item, 0)
get(vector, item) == IF item \in DOMAIN vector THEN vector[item] ELSE 0

\* the step taken without the floor at 0
updated_prices_unfloored(p, d, vector) ==
    [item \in DOMAIN p |-> p[item] + d * get(vector, item)]

\* lines 280-282
updated_prices(p, d, vector) ==
    [item \in DOMAIN p |-> Max(0, p[item] + d * get(vector, item))]

\* the candidate kept out of the list when the history excludes it
find_gradient_neighbors_filtered(nbrs, hist, p, d, vector) ==
    IF any_history(hist, updated_prices(p, d, vector)) THEN nbrs
    ELSE Append(nbrs, updated_prices(p, d, vector))

\* lines 280-287: the list after the call; the test against the history is
\* commented out (line 284)
\* a step against the excess demand
find_gradient_neighbors_descent(nbrs, hist, p, d, vector) ==
    Append(nbrs, updated_prices(p, 0 - d, vector))

find_gradient_neighbors(nbrs, hist, p, d, vector) ==
    Append(nbrs, updated_prices(p, d, vector))

(***************************************************************************)
(* differ_in_one_value                                                     *)
(***************************************************************************)
\* the keys whose values differ
differing(original_allocation, new_allocation) ==
    {key \in DOMAIN original_allocation :
        key \in DOMAIN new_allocation /\ original_allocation[key] # new_allocation[key]}

\* line 333 evaluates "course in None" or "course not in None": TypeError
differ_in_one_value_raises(original_allocation, new_allocation, course) ==
    LET diff == differing(original_allocation, new_allocation)
    IN  /\ Cardinality(diff) = 1
        /\ LET diff_course == CHOOSE key \in diff : TRUE
           IN  \/ original_allocation[diff_course].kind = "None"
               \/ /\ In(course, original_allocation[diff_course].items)
                  /\ new_allocation[diff_course].kind = "None"

\* lines 323-333
differ_in_one_value(original_allocation, new_allocation, course) ==
    LET diff == differing(original_allocation, new_allocation)
    IN  /\ Cardinality(diff) = 1
        /\ LET diff_course == CHOOSE key \in diff : TRUE
           IN  /\ In(course, original_allocation[diff_course].items)
               /\ ~In(course, new_allocation[diff_course].items)

(***************************************************************************)
(* find_individual_price_adjustment_neighbors                              *)
(*                                                                         *)
(* The result is [raised, neighbors]: whether a TypeError ended the call,  *)
(* and the list as the call left it.                                       *)
(***************************************************************************)
\* for _ in range(35)
range_steps == 35

\* updated_prices in neighbors
in_list(p, nbrs) == \E k \in 1..Len(nbrs) : nbrs[k] = p

\* lines 392-393 for one pass: what the pass does with the allocation the
\* oracle gives at its prices
pass_outcome(new_allocation, alloc, course, stepped, nbrs) ==
    IF differ_in_one_value_raises(new_allocation, alloc, course) THEN "raise"
    ELSE IF differ_in_one_value(new_allocation, alloc, course) /\ ~in_list(stepped, nbrs)
    THEN "append"
    ELSE "pass"

\* lines 386-395 for one course: the k-th pass of the loop looks at the prices
\* with the course's price raised by k.  A pass the memory excludes is skipped
\* (line 390); a pass in which differ_in_one_value raises ends the call; every
\* other pass appends its prices when the test of line 393 holds.  The passes
\* raise different prices, so "not in neighbors" only ever finds a vector that
\* was in the list before the loop.
increment_loop(course, nbrs, hist, p, alloc) ==
    LET stepped(k) == [p EXCEPT ![course] = @ + k]
        outcome(k) ==
            IF any_history(hist, stepped(k)) THEN "continue"
            ELSE CHOOSE o \in
                     {pass_outcome(new_allocation, alloc, course, stepped(k), nbrs) :
                         new_allocation \in
                             {student_best_bundle(stepped(k), initial_budgets) @@ <<>>}} : TRUE
    IN  CHOOSE result \in
            {LET raising == {k \in 1..range_steps : outcomes[k] = "raise"}
                 last == IF raising = {} THEN range_steps
                         ELSE (CHOOSE k \in raising : \A j \in raising : k <= j) - 1
                 appended == SelectSeq([k \in 1..last |-> k],
                                       LAMBDA k : outcomes[k] = "append")
             IN  [raised |-> raising # {},
                  neighbors |-> nbrs \o [n \in 1..Len(appended) |-> stepped(appended[n])]] :
                outcomes \in {[k \in 1..range_steps |-> outcome(k)] \o <<>>}} : TRUE

\* lines 381-404: the courses of the excess-demand vector from the k-th on
RECURSIVE courses_loop(_, _, _, _, _, _)
courses_loop(k, nbrs, hist, p, vector, alloc) ==
    IF k > Len(items) THEN [raised |-> FALSE, neighbors |-> nbrs]
    ELSE LET course == items[k]
         IN  IF course \notin DOMAIN vector \/ vector[course] = 0
             THEN courses_loop(k + 1, nbrs, hist, p, vector, alloc)
             ELSE IF vector[course] > 0
             THEN CHOOSE result \in
                      {IF r.raised THEN r
                       ELSE courses_loop(k + 1, r.neighbors, hist, p, vector, alloc) :
                          r \in {increment_loop(course, nbrs, hist, p, alloc)}} : TRUE
             ELSE LET zeroed == [p EXCEPT ![course] = 0]
                  IN  IF ~any_history(hist, zeroed) /\ ~in_list(zeroed, nbrs)
                      THEN courses_loop(k + 1, Append(nbrs, zeroed), hist, p, vector, alloc)
                      ELSE courses_loop(k + 1, nbrs, hist, p, vector, alloc)

find_individual_price_adjustment_neighbors(nbrs, hist, p, vector, alloc) ==
    courses_loop(1, nbrs, hist, p, vector, alloc)

\* lines 420-422
find_all_neighbors(nbrs, hist, p, d, vector, alloc) ==
    find_individual_price_adjustment_neighbors(
        find_gradient_neighbors(nbrs, hist, p, d, vector), hist, p, vector, alloc)

(***************************************************************************)
(* find_min_error_prices                                                   *)
(***************************************************************************)
\* clipped_excess_demand raises TypeError on the allocation of a neighbor at
\* which some student can afford nothing
find_min_error_prices_raises(nbrs) ==
    \E k \in 1..Len(nbrs) :
        excess_demand_raises(student_best_bundle(nbrs[k], initial_budgets))

\* lines 459-466 from the k-th neighbor on; min_error is the square of the
\* smallest norm so far, -1 for float('inf')
RECURSIVE min_error_loop(_, _, _, _)
min_error_loop(nbrs, k, min_error, prices_vector) ==
    IF k > Len(nbrs) THEN prices_vector
    ELSE LET alloc == student_best_bundle(nbrs[k], initial_budgets)
             norma2 == sum_squares_of(clipped_excess_demand(nbrs[k], alloc))
         IN  IF min_error = -1 \/ norma2 < min_error
             THEN min_error_loop(nbrs, k + 1, norma2, nbrs[k])
             ELSE min_error_loop(nbrs, k + 1, min_error, prices_vector)

\* lines 457-468; None when the list is empty
find_min_error_prices(nbrs) == min_error_loop(nbrs, 1, -1, None)

(***************************************************************************)
(* find_profitable_manipulation                                            *)
(* (fairpyx/algorithms/find_profitable_manipulation.py)                    *)
(*                                                                         *)
(* A report is a function from items to weights; {} is the function with   *)
(* no item.  The mechanism is an argument of the function: its calls       *)
(* either raise or give the student some expected value.                   *)
(***************************************************************************)
\* the local update coefficient, and the passes of the loop followed
neu == 2
MaxLoop == 2
MaxExpected == 1

RECURSIVE power(_, _)
power(b, n) == IF n = 0 THEN 1 ELSE b * power(b, n - 1)

\* the keys of a dict, in the order of the items
keys(original) == SelectSeq(<<"x", "y", "z">>, LAMBDA key : key \in DOMAIN original)

\* lines 53-66: for every key the report with the key's weight divided by neu
\* and the report with it multiplied by neu
create_misreports(original, n) ==
    [k \in 1..(2 * Len(keys(original))) |->
        LET key == keys(original)[(k + 1) \div 2]
        IN  IF k % 2 = 1
            THEN [original EXCEPT ![key] = original[key] \div n]
            ELSE [original EXCEPT ![key] = original[key] * n]]

\* lines 194-199 and 241-246 from the k-th misreport on; expected[k] is the
\* expected value of the student under the k-th misreport
RECURSIVE best_manipulation_loop(_, _, _, _, _)
best_manipulation_loop(reports, expected, k, max_expected_value, best_manipulation_found) ==
    IF k > Len(reports) THEN best_manipulation_found
    ELSE IF expected[k] > max_expected_value
         THEN best_manipulation_loop(reports, expected, k + 1, expected[k], reports[k])
         ELSE best_manipulation_loop(reports, expected, k + 1, max_expected_value,
                                     best_manipulation_found)

\* lines 184-201 and 230-248: truthful is the expected value under the
\* student's utility
criteria_randomness(u, reports, truthful, expected) ==
    best_manipulation_loop(reports, expected, 1, truthful, u)

\* the search started from the student's own utility
initial_manipulation_utility(u) == u

\* line 359
initial_manipulation(u) == <<>>

\* random_initial_budgets, lines 29-34, on the integer grid
random_initial_budgets ==
    [AgentSet -> (1 + beta \div 4)..(1 + (3 * beta) \div 4)]

\* the variables of find_profitable_manipulation while tabu_search or one of
\* its functions runs
no_manipulation ==
    /\ utility = <<>>
    /\ criteria = "randomness"
    /\ current_best_manipulation = <<>>
    /\ misreports = <<>>
    /\ iterations = 0

(***************************************************************************)
(* tabu_search                                                             *)
(***************************************************************************)
\* a tolerance of 1 for the tolerance of 1e-8
allclose_zero_loose(vector) == sum_squares(vector, 1) <= 1

\* np.allclose(norma2, 0): |norma2| <= 1e-8, which for a vector of integers
\* says that the sum of the squares is 0
allclose_zero(vector) == sum_squares(vector, 1) = 0

\* a run that starts with a constraint already in the memory
Init_StaleHistory ==
    /\ valuations \in ValuationProfiles
    /\ agent_capacities \in AgentCapacityProfiles
    /\ item_capacities \in ItemCapacityProfiles
    /\ initial_budgets \in BudgetProfiles
    /\ prices \in [ItemSet -> InitialPriceGrid]
    /\ delta = 1
    /\ history = <<[op |-> "<=", bundle |-> <<"x">>, agent |-> "ami"]>>
    /\ neighbors = <<>>
    /\ allocation = [student \in AgentSet |-> Unbound]
    /\ excess_demand_vector = [course \in ItemSet |-> 0]
    /\ pc = "loop"
    /\ error = "none"
    /\ returned = <<>>
    /\ no_manipulation

\* lines 532-537: prices drawn, history empty, nothing else bound; delta is the
\* 1 that line 553 assigns in every iteration
Init ==
    /\ valuations \in ValuationProfiles
    /\ agent_capacities \in AgentCapacityProfiles
    /\ item_capacities \in ItemCapacityProfiles
    /\ initial_budgets \in BudgetProfiles
    /\ prices \in [ItemSet -> InitialPriceGrid]
    /\ delta = 1
    /\ history = <<>>
    /\ neighbors = <<>>
    /\ allocation = [student \in AgentSet |-> Unbound]
    /\ excess_demand_vector = [course \in ItemSet |-> 0]
    /\ pc = "loop"
    /\ error = "none"
    /\ returned = <<>>
    /\ no_manipulation

\* the prices stepped after the allocation was computed, before the test
BestBundleStep_PricesMoved ==
    /\ pc = "loop"
    /\ neighbors' = <<>>
    /\ allocation' = student_best_bundle(prices, initial_budgets)
    /\ prices' = [course \in ItemSet |-> prices[course] + 1]
    /\ pc' = "demand"
    /\ UNCHANGED <<instance_vars, delta, history, excess_demand_vector, error, returned>>
    /\ UNCHANGED manipulation_vars

\* lines 538-540: the loop is entered, neighbors reset, the allocation computed
BestBundleStep ==
    /\ pc = "loop"
    /\ neighbors' = <<>>
    /\ allocation' = student_best_bundle(prices, initial_budgets)
    /\ pc' = "demand"
    /\ UNCHANGED <<instance_vars, delta, prices, history, excess_demand_vector, error, returned>>
    /\ UNCHANGED manipulation_vars

\* lines 541-547 and 561-562: the clipped excess demand and the convergence
\* test; on convergence the loop is left and the allocation returned
DemandStep ==
    /\ pc = "demand"
    /\ IF excess_demand_raises(allocation)
       THEN /\ pc' = "raised"
            /\ error' = "TypeError"
            /\ UNCHANGED <<excess_demand_vector, returned>>
       ELSE /\ excess_demand_vector' = clipped_excess_demand(prices, allocation)
            /\ IF allclose_zero(excess_demand_vector')
               THEN /\ pc' = "returned"
                    /\ returned' = <<allocation>>
               ELSE /\ pc' = "update"
                    /\ UNCHANGED returned
            /\ UNCHANGED error
    /\ UNCHANGED <<instance_vars, delta, prices, history, neighbors, allocation>>
    /\ UNCHANGED manipulation_vars

\* lines 551-552: history is the dict of line 534, which has no method add, so
\* history.add(equivalent_prices) raises AttributeError and the run ends
HistoryStep ==
    /\ pc = "update"
    /\ pc' = "raised"
    /\ error' = "AttributeError"
    /\ UNCHANGED <<instance_vars, delta, prices, history, neighbors, allocation,
                   excess_demand_vector, returned>>
    /\ UNCHANGED manipulation_vars

Next == BestBundleStep \/ DemandStep \/ HistoryStep

Spec == Init /\ [][Next]_vars

\* the budgets of the doctest, with those of some students replaced by a
\* budget that is not positive
UncheckedBudgetProfiles ==
    {[student \in AgentSet |-> IF student \in S THEN b ELSE Run1Budgets[student]] :
        S \in SUBSET AgentSet, b \in {0, -1}}

\* tabu_search called by a caller that does not check the budgets
InitUnchecked ==
    /\ valuations = Run1Valuations
    /\ agent_capacities \in AgentCapacityProfiles
    /\ item_capacities = Run1ItemCapacities
    /\ initial_budgets \in UncheckedBudgetProfiles
    /\ prices \in [ItemSet -> InitialPriceGrid]
    /\ delta = 1
    /\ history = <<>>
    /\ neighbors = <<>>
    /\ allocation = [student \in AgentSet |-> Unbound]
    /\ excess_demand_vector = [course \in ItemSet |-> 0]
    /\ pc = "loop"
    /\ error = "none"
    /\ returned = <<>>
    /\ no_manipulation

SpecUnchecked == InitUnchecked /\ [][Next]_vars

(***************************************************************************)
(* The functions called on their own                                       *)
(***************************************************************************)
\* student_best_bundle(prices, instance, initial_budgets) is about to be called
InitFn ==
    /\ valuations \in ValuationProfiles
    /\ agent_capacities \in AgentCapacityProfiles
    /\ item_capacities \in ItemCapacityProfiles
    /\ initial_budgets \in BudgetProfiles
    /\ prices \in [ItemSet -> PriceGrid]
    /\ delta = 1
    /\ history = <<>>
    /\ neighbors = <<>>
    /\ allocation = [student \in AgentSet |-> Unbound]
    /\ excess_demand_vector = [course \in ItemSet |-> 0]
    /\ pc = "call"
    /\ error = "none"
    /\ returned = <<>>
    /\ no_manipulation

Call_student_best_bundle ==
    /\ pc = "call"
    /\ allocation' = student_best_bundle(prices, initial_budgets)
    /\ pc' = "student_best_bundle"
    /\ UNCHANGED <<instance_vars, delta, prices, history, neighbors, excess_demand_vector,
                   error, returned>>
    /\ UNCHANGED manipulation_vars

NextFn == Call_student_best_bundle

SpecFn == InitFn /\ [][NextFn]_vars

\* the bundles an allocation passed by a caller can hold: the empty tuple, the
\* combinations of up to MaxAgentCapacity items, and None
BundleChoices ==
    LET list == combinations_up_to(1, MaxAgentCapacity)
    IN  {Tuple(<<>>), None} \cup {Tuple(list[k]) : k \in 1..Len(list)}

Allocations == [AgentSet -> BundleChoices]

DemandPriceGrid == {0, 1, 1 + beta}

\* excess_demand or clipped_excess_demand is about to be called
InitDemand ==
    /\ valuations = Run1Valuations
    /\ agent_capacities = [a \in AgentSet |-> MaxAgentCapacity]
    /\ item_capacities \in ItemCapacityProfiles
    /\ initial_budgets = Run1Budgets
    /\ prices \in [ItemSet -> DemandPriceGrid]
    /\ delta = 1
    /\ history = <<>>
    /\ neighbors = <<>>
    /\ allocation = [student \in AgentSet |-> Unbound]
    /\ excess_demand_vector = [course \in ItemSet |-> 0]
    /\ pc = "call"
    /\ error = "none"
    /\ returned = <<>>
    /\ no_manipulation

Call_excess_demand ==
    /\ pc = "call"
    /\ \E alloc \in Allocations :
        /\ allocation' = alloc
        /\ IF excess_demand_raises(alloc)
           THEN /\ pc' = "raised"
                /\ error' = "TypeError"
                /\ UNCHANGED excess_demand_vector
           ELSE /\ pc' = "excess_demand"
                /\ excess_demand_vector' = excess_demand(alloc)
                /\ UNCHANGED error
    /\ UNCHANGED <<instance_vars, delta, prices, history, neighbors, returned>>
    /\ UNCHANGED manipulation_vars

Call_clipped_excess_demand ==
    /\ pc = "call"
    /\ \E alloc \in Allocations :
        /\ allocation' = alloc
        /\ IF excess_demand_raises(alloc)
           THEN /\ pc' = "raised"
                /\ error' = "TypeError"
                /\ UNCHANGED excess_demand_vector
           ELSE /\ pc' = "clipped_excess_demand"
                /\ excess_demand_vector' = clipped_excess_demand(prices, alloc)
                /\ UNCHANGED error
    /\ UNCHANGED <<instance_vars, delta, prices, history, neighbors, returned>>
    /\ UNCHANGED manipulation_vars

NextDemand == Call_excess_demand \/ Call_clipped_excess_demand

SpecDemand == InitDemand /\ [][NextDemand]_vars

\* student_best_bundle is about to be called on an instance of one agent and
\* one item, the item without a seat
InitSingle ==
    /\ valuations \in {[a \in {"ami"} |-> [c \in {"x"} |-> v]] : v \in 1..(1 + beta)}
    /\ agent_capacities \in {[a \in {"ami"} |-> n] : n \in 1..MaxAgentCapacity}
    /\ item_capacities = [c \in {"x"} |-> 0]
    /\ initial_budgets \in {[a \in {"ami"} |-> b] : b \in 1..(1 + beta)}
    /\ prices \in [{"x"} -> PriceGrid]
    /\ delta = 1
    /\ history = <<>>
    /\ neighbors = <<>>
    /\ allocation = [student \in {"ami"} |-> Unbound]
    /\ excess_demand_vector = [course \in {"x"} |-> 0]
    /\ pc = "call"
    /\ error = "none"
    /\ returned = <<>>
    /\ no_manipulation

SpecSingle == InitSingle /\ [][NextFn]_vars

\* the largest entry of an excess-demand vector handed to
\* find_gradient_neighbors
MaxExcess == 2

\* excess-demand vectors with an entry for some of the items
ExcessVectors ==
    UNION {[D -> (0 - MaxExcess)..MaxExcess] : D \in SUBSET ItemSet}

\* a memory that excludes the price vectors at which ami can pay for x and y
BudgetConstraint == [op |-> "<=", bundle |-> <<"x", "y">>, agent |-> "ami"]

\* find_gradient_neighbors is about to be called
InitGradient ==
    /\ valuations = Run1Valuations
    /\ agent_capacities = [a \in AgentSet |-> MaxAgentCapacity]
    /\ item_capacities = Run1ItemCapacities
    /\ initial_budgets = Run1Budgets
    /\ prices \in [ItemSet -> DemandPriceGrid]
    /\ delta \in {1, 2}
    /\ history \in {<<>>, <<BudgetConstraint>>}
    /\ neighbors \in {<<>>, <<prices>>}
    /\ allocation = [student \in AgentSet |-> Unbound]
    /\ excess_demand_vector \in ExcessVectors
    /\ pc = "call"
    /\ error = "none"
    /\ returned = <<>>
    /\ no_manipulation

\* lines 279-287: the list is extended in place and the candidate returned
Call_find_gradient_neighbors ==
    /\ pc = "call"
    /\ neighbors' = find_gradient_neighbors(neighbors, history, prices, delta,
                                            excess_demand_vector)
    /\ returned' = <<updated_prices(prices, delta, excess_demand_vector)>>
    /\ pc' = "find_gradient_neighbors"
    /\ UNCHANGED <<instance_vars, delta, prices, history, allocation,
                   excess_demand_vector, error>>
    /\ UNCHANGED manipulation_vars

NextGradient == Call_find_gradient_neighbors

SpecGradient == InitGradient /\ [][NextGradient]_vars

\* find_all_neighbors and find_min_error_prices are about to be called the way
\* lines 554-558 call them, by a caller that holds a list for the memory
InitNeighbors ==
    /\ valuations \in ValuationProfiles
    /\ agent_capacities \in {[a \in AgentSet |-> c] : c \in {1, MaxAgentCapacity}}
    /\ item_capacities = Run1ItemCapacities
    /\ initial_budgets = Run1Budgets
    /\ prices \in [ItemSet -> DemandPriceGrid]
    /\ delta = 1
    /\ history = <<>>
    /\ neighbors = <<>>
    /\ allocation = [student \in AgentSet |-> Unbound]
    /\ excess_demand_vector = [course \in ItemSet |-> 0]
    /\ pc = "call"
    /\ error = "none"
    /\ returned = <<>>
    /\ no_manipulation

\* lines 554-555, with the arguments lines 540-552 prepare: the allocation at
\* the current prices, its clipped excess demand, which is not zero, and a
\* memory that is empty or holds the constraints of the allocation.  A
\* TypeError leaves the list as far as it was filled.
Call_find_all_neighbors ==
    /\ pc = "call"
    /\ allocation' = student_best_bundle(prices, initial_budgets)
    /\ ~excess_demand_raises(allocation')
    /\ excess_demand_vector' = clipped_excess_demand(prices, allocation')
    /\ ~allclose_zero(excess_demand_vector')
    /\ history' \in {<<>>, find_all_equivalent_prices(allocation')}
    /\ \E r \in {find_all_neighbors(neighbors, history', prices, delta,
                                    excess_demand_vector', allocation')} :
           /\ neighbors' = r.neighbors
           /\ IF r.raised
              THEN pc' = "raised" /\ error' = "TypeError"
              ELSE pc' = "find_all_neighbors" /\ UNCHANGED error
    /\ UNCHANGED <<instance_vars, delta, prices, returned>>
    /\ UNCHANGED manipulation_vars

\* line 558
Call_find_min_error_prices ==
    /\ pc = "find_all_neighbors"
    /\ IF find_min_error_prices_raises(neighbors)
       THEN pc' = "raised" /\ error' = "TypeError" /\ UNCHANGED returned
       ELSE /\ pc' = "find_min_error_prices"
            /\ returned' = <<find_min_error_prices(neighbors)>>
            /\ UNCHANGED error
    /\ UNCHANGED <<instance_vars, delta, prices, history, neighbors, allocation,
                   excess_demand_vector>>
    /\ UNCHANGED manipulation_vars

NextNeighbors == Call_find_all_neighbors \/ Call_find_min_error_prices

SpecNeighbors == InitNeighbors /\ [][NextNeighbors]_vars

\* the allocations a caller hands to
\* find_individual_price_adjustment_neighbors: the one the oracle gives at
\* the prices, and those that differ from it in the bundle of one student
IndividualAllocations(base) ==
    {base} \cup {[base EXCEPT ![student] = Tuple(<<course>>)] :
                    student \in AgentSet, course \in ItemSet}

\* find_individual_price_adjustment_neighbors is about to be called, with a
\* list that is empty or holds the zeroed candidate of z already
InitIndividual ==
    /\ valuations \in ValuationProfiles
    /\ agent_capacities \in {[a \in AgentSet |-> c] : c \in {1, MaxAgentCapacity}}
    /\ item_capacities = [x |-> 1, y |-> 1, z |-> 1]
    /\ initial_budgets = Run1Budgets
    /\ prices \in [ItemSet -> {1, 1 + beta}]
    /\ delta = 1
    /\ history \in {<<>>, <<BudgetConstraint>>}
    /\ neighbors \in {<<>>, <<[prices EXCEPT !["z"] = 0]>>}
    /\ allocation = [student \in AgentSet |-> Unbound]
    /\ excess_demand_vector = [course \in ItemSet |-> 0]
    /\ pc = "call"
    /\ error = "none"
    /\ returned = <<>>
    /\ no_manipulation

\* lines 381-404, called with an allocation without None and the clipped
\* excess demand of that allocation; the list is extended in place and returned
Call_find_individual_price_adjustment_neighbors ==
    /\ pc = "call"
    /\ \E base \in {student_best_bundle(prices, initial_budgets)} :
           /\ ~excess_demand_raises(base)
           /\ allocation' \in IndividualAllocations(base)
    /\ excess_demand_vector' = clipped_excess_demand(prices, allocation')
    /\ \E r \in {find_individual_price_adjustment_neighbors(
                     neighbors, history, prices, excess_demand_vector', allocation')} :
           /\ neighbors' = r.neighbors
           /\ IF r.raised
              THEN pc' = "raised" /\ error' = "TypeError" /\ UNCHANGED returned
              ELSE /\ pc' = "find_individual_price_adjustment_neighbors"
                   /\ returned' = <<r.neighbors>>
                   /\ UNCHANGED error
    /\ UNCHANGED <<instance_vars, delta, prices, history>>
    /\ UNCHANGED manipulation_vars

NextIndividual == Call_find_individual_price_adjustment_neighbors

SpecIndividual == InitIndividual /\ [][NextIndividual]_vars

\* the neighbor lists handed to find_min_error_prices on its own: up to two
\* price vectors, each item free or at the top of the price range
NeighborLists ==
    LET candidates == [ItemSet -> {0, 1 + beta}]
    IN  {<<>>} \cup {<<q>> : q \in candidates}
               \cup {<<q, r>> : q \in candidates, r \in candidates}

\* find_min_error_prices is about to be called on a list of its caller's
InitMinError ==
    /\ valuations \in ValuationProfiles
    /\ agent_capacities \in {[a \in AgentSet |-> c] : c \in {1, MaxAgentCapacity}}
    /\ item_capacities = Run1ItemCapacities
    /\ initial_budgets = Run1Budgets
    /\ prices = [item \in ItemSet |-> 1]
    /\ delta = 1
    /\ history = <<>>
    /\ neighbors \in NeighborLists
    /\ allocation = [student \in AgentSet |-> Unbound]
    /\ excess_demand_vector = [course \in ItemSet |-> 0]
    /\ pc = "find_all_neighbors"
    /\ error = "none"
    /\ returned = <<>>
    /\ no_manipulation

NextMinError == Call_find_min_error_prices

SpecMinError == InitMinError /\ [][NextMinError]_vars

\* find_all_equivalent_prices is about to be called on the allocation the
\* oracle gives at the prices
InitEquivalent ==
    /\ valuations \in ValuationProfiles
    /\ agent_capacities \in {[a \in AgentSet |-> c] : c \in {1, MaxAgentCapacity}}
    /\ item_capacities = Run1ItemCapacities
    /\ initial_budgets = Run1Budgets
    /\ prices \in [ItemSet -> DemandPriceGrid]
    /\ delta = 1
    /\ history = <<>>
    /\ neighbors = <<>>
    /\ allocation = [student \in AgentSet |-> Unbound]
    /\ excess_demand_vector = [course \in ItemSet |-> 0]
    /\ pc = "call"
    /\ error = "none"
    /\ returned = <<>>
    /\ no_manipulation

\* lines 540 and 548: the allocation at the prices and its constraints
Call_find_all_equivalent_prices ==
    /\ pc = "call"
    /\ allocation' = student_best_bundle(prices, initial_budgets)
    /\ IF find_all_equivalent_prices_raises(allocation')
       THEN pc' = "raised" /\ error' = "TypeError" /\ UNCHANGED history
       ELSE /\ pc' = "find_all_equivalent_prices"
            /\ history' = find_all_equivalent_prices(allocation')
            /\ UNCHANGED error
    /\ UNCHANGED <<instance_vars, delta, prices, neighbors, excess_demand_vector,
                   returned>>
    /\ UNCHANGED manipulation_vars

NextEquivalent == Call_find_all_equivalent_prices

SpecEquivalent == InitEquivalent /\ [][NextEquivalent]_vars

\* the utilities of the student: weights that stay whole under MaxLoop
\* divisions by neu
Utilities ==
    LET w == power(neu, MaxLoop)
    IN  {[x |-> w, y |-> 2 * w, z |-> 4 * w], [x |-> 2 * w, y |-> w, z |-> w]}

\* find_profitable_manipulation is about to be called
InitManipulation ==
    /\ valuations \in ValuationProfiles
    /\ agent_capacities = [a \in AgentSet |-> MaxAgentCapacity]
    /\ item_capacities = Run1ItemCapacities
    /\ initial_budgets = Run1Budgets
    /\ prices = [item \in ItemSet |-> 1]
    /\ delta = 1
    /\ history = <<>>
    /\ neighbors = <<>>
    /\ allocation = [student \in AgentSet |-> Unbound]
    /\ excess_demand_vector = [course \in ItemSet |-> 0]
    /\ pc = "call"
    /\ error = "none"
    /\ returned = <<>>
    /\ utility \in Utilities
    /\ criteria \in {"randomness", "population"}
    /\ current_best_manipulation = <<>>
    /\ misreports = <<>>
    /\ iterations = 0

\* lines 359-361
Begin_find_profitable_manipulation ==
    /\ pc = "call"
    /\ current_best_manipulation' = initial_manipulation(utility)
    /\ initial_budgets' \in random_initial_budgets
    /\ pc' = "while"
    /\ UNCHANGED <<valuations, agent_capacities, item_capacities, prices, delta,
                   history, neighbors, allocation, excess_demand_vector, error,
                   returned, utility, criteria, misreports, iterations>>

\* line 366, at the top of a pass of the loop
Call_create_misreports ==
    /\ pc = "while"
    /\ iterations < MaxLoop
    /\ iterations' = iterations + 1
    /\ misreports' = create_misreports(current_best_manipulation, neu)
    /\ pc' = "criteria"
    /\ UNCHANGED <<instance_vars, prices, delta, history, neighbors, allocation,
                   excess_demand_vector, error, returned, utility, criteria,
                   current_best_manipulation>>

\* lines 372-378: criteria_population or criteria_randomness; a call of the
\* mechanism raises, or the reports get their expected values
Call_criteria ==
    /\ pc = "criteria"
    /\ \/ /\ pc' = "raised"
          /\ error' = "Exception"
          /\ UNCHANGED current_best_manipulation
       \/ /\ \E truthful \in 0..MaxExpected :
                 \E expected \in [1..Len(misreports) -> 0..MaxExpected] :
                     current_best_manipulation' =
                         criteria_randomness(utility, misreports, truthful, expected)
          /\ pc' = "if"
          /\ UNCHANGED error
    /\ UNCHANGED <<instance_vars, prices, delta, history, neighbors, allocation,
                   excess_demand_vector, returned, utility, criteria, misreports,
                   iterations>>

\* lines 379-382
Compare_current_best_manipulation ==
    /\ pc = "if"
    /\ IF current_best_manipulation = utility
       THEN pc' = "break" /\ UNCHANGED utility
       ELSE pc' = "while" /\ utility' = current_best_manipulation
    /\ UNCHANGED <<instance_vars, prices, delta, history, neighbors, allocation,
                   excess_demand_vector, error, returned, criteria,
                   current_best_manipulation, misreports, iterations>>

\* line 385
Return_current_best_manipulation ==
    /\ pc = "break"
    /\ returned' = <<current_best_manipulation>>
    /\ pc' = "find_profitable_manipulation"
    /\ UNCHANGED <<instance_vars, prices, delta, history, neighbors, allocation,
                   excess_demand_vector, error, utility, criteria,
                   current_best_manipulation, misreports, iterations>>

NextManipulation ==
    \/ Begin_find_profitable_manipulation
    \/ Call_create_misreports
    \/ Call_criteria
    \/ Compare_current_best_manipulation
    \/ Return_current_best_manipulation

SpecManipulation == InitManipulation /\ [][NextManipulation]_vars

(***************************************************************************)
(* Properties                                                              *)
(***************************************************************************)
\* the bundle of items S, in the order of instance.items
BundleOf(S) == SelectSeq(items, LAMBDA course : course \in S)

\* every bundle of 1..capacity items a student can be given
BundlesOf(student) ==
    {BundleOf(S) : S \in {T \in SUBSET ItemSet :
                            Cardinality(T) >= 1 /\ Cardinality(T) <= agent_capacity(student)}}

RECURSIVE TotalOver(_, _, _)
TotalOver(f, bundle, k) ==
    IF k > Len(items) THEN 0
    ELSE (IF In(items[k], bundle) THEN f[items[k]] ELSE 0) + TotalOver(f, bundle, k + 1)

\* the total price of a bundle, item by item of the instance
TotalPrice(p, bundle) == TotalOver(p, bundle, 1)

\* the value of a bundle for a student, item by item of the instance
TotalValue(student, bundle) == TotalOver(valuations[student], bundle, 1)

AffordableBundles(student) ==
    {b \in BundlesOf(student) : TotalPrice(prices, b) <= initial_budgets[student]}

Position(course) == CHOOSE k \in 1..Len(items) : items[k] = course

\* b comes before d in the enumeration: fewer items first, then the order in
\* which combinations combines the items
EnumeratedBefore(b, d) ==
    \/ Len(b) < Len(d)
    \/ /\ Len(b) = Len(d)
       /\ \E k \in 1..Len(b) :
            /\ \A j \in 1..(k - 1) : b[j] = d[j]
            /\ Position(b[k]) < Position(d[k])

\* the number of students whose bundle holds the course, less its capacity
RawExcess(course) ==
    Cardinality({student \in AgentSet : In(course, allocation[student].items)})
    - item_capacities[course]

Terminal == {"returned", "raised"}

\* C1: every bundle student_best_bundle returns for an agent has at most
\* agent_capacity(agent) items and a total price within the agent's budget.
C1_BundleWithinCapacityAndBudget ==
    pc = "student_best_bundle" =>
        \A student \in AgentSet :
            allocation[student].kind = "tuple" =>
                /\ Len(allocation[student].items) <= agent_capacity(student)
                /\ TotalPrice(prices, allocation[student].items) <= initial_budgets[student]

\* a student is given a bundle that fills the capacity and spends the whole
\* budget, while a more valuable bundle is out of reach
C1_Witness ==
    /\ pc = "student_best_bundle"
    /\ \E student \in AgentSet :
        /\ allocation[student].kind = "tuple"
        /\ Len(allocation[student].items) = agent_capacity(student)
        /\ agent_capacity(student) = 2
        /\ TotalPrice(prices, allocation[student].items) = initial_budgets[student]
        /\ \E d \in BundlesOf(student) :
            /\ TotalValue(student, d) > TotalValue(student, allocation[student].items)
            /\ TotalPrice(prices, d) > initial_budgets[student]

\* C2: when some bundle of 1..capacity items is within the budget, the bundle
\* returned is one of them, no affordable bundle has a higher value, and every
\* other affordable bundle of the same value comes later in the enumeration.
C2_BestAffordableFirstInEnumeration ==
    pc = "student_best_bundle" =>
        \A student \in AgentSet :
            AffordableBundles(student) # {} =>
                /\ allocation[student].kind = "tuple"
                /\ allocation[student].items \in AffordableBundles(student)
                /\ \A d \in AffordableBundles(student) :
                    /\ TotalValue(student, d) <= TotalValue(student, allocation[student].items)
                    /\ (TotalValue(student, d) = TotalValue(student, allocation[student].items)
                        /\ d # allocation[student].items)
                       => EnumeratedBefore(allocation[student].items, d)

\* two affordable bundles of the same, maximal, value: the tie is decided
C2_Witness ==
    /\ pc = "student_best_bundle"
    /\ \E student \in AgentSet :
        /\ allocation[student].kind = "tuple"
        /\ \E d \in AffordableBundles(student) :
            /\ d # allocation[student].items
            /\ Len(d) = Len(allocation[student].items)
            /\ TotalValue(student, d) = TotalValue(student, allocation[student].items)

\* C3: a student for whom no non-empty bundle is affordable is mapped to the
\* empty bundle, and the run goes on without raising an error.
C3_EmptyBundleFallback ==
    pc \in {"demand", "update"} \cup Terminal =>
        \A student \in AgentSet :
            AffordableBundles(student) = {} =>
                /\ allocation[student] = Tuple(<<>>)
                /\ error = "none"

\* C4: clipped_excess_demand gives the raw excess demand of an item priced
\* above 0 and max(0, raw excess demand) of an item priced 0, so never a
\* negative value for an item priced 0.
C4_ClippedExcessDemand ==
    pc = "clipped_excess_demand" =>
        \A course \in ItemSet :
            /\ prices[course] > 0 => excess_demand_vector[course] = RawExcess(course)
            /\ prices[course] = 0 =>
                /\ excess_demand_vector[course] = Max(0, RawExcess(course))
                /\ excess_demand_vector[course] >= 0

\* a free item with slack is clipped to 0 while a priced item keeps its slack
C4_Witness ==
    /\ pc = "clipped_excess_demand"
    /\ \E course \in ItemSet :
        prices[course] = 0 /\ RawExcess(course) < 0 /\ excess_demand_vector[course] = 0
    /\ \E course \in ItemSet :
        prices[course] > 0 /\ excess_demand_vector[course] < 0

\* C5: excess_demand has exactly one entry per item of the instance: the
\* number of agents whose bundle holds the item, less the item's capacity.
C5_ExcessDemand ==
    pc = "excess_demand" =>
        /\ DOMAIN excess_demand_vector = ItemSet
        /\ \A course \in ItemSet : excess_demand_vector[course] = RawExcess(course)

\* an allocation with an item held by several agents beyond its capacity and
\* an item with slack
C5_Witness ==
    /\ pc = "excess_demand"
    /\ \E course \in ItemSet :
        /\ excess_demand_vector[course] > 0
        /\ Cardinality({student \in AgentSet : In(course, allocation[student].items)}) >= 2
    /\ \E course \in ItemSet : excess_demand_vector[course] < 0

\* C6: tabu_search returns only from an iteration in which the clipped excess
\* demand of the allocation at the current prices is zero for every item, and
\* then the tabu memory has not been extended and no neighbor generated.
C6_ReturnOnlyAtZeroClippedDemand ==
    pc = "returned" =>
        /\ \A course \in ItemSet :
            (IF prices[course] = 0 THEN Max(0, RawExcess(course)) ELSE RawExcess(course)) = 0
        /\ history = <<>>
        /\ neighbors = <<>>

\* a run that converged, every seat taken
C6_Witness ==
    /\ pc = "returned"
    /\ \A course \in ItemSet : RawExcess(course) = 0
    /\ \E student \in AgentSet : Len(allocation[student].items) = 2

IsRun1 ==
    /\ valuations = Run1Valuations
    /\ agent_capacities = [a \in AgentSet |-> 2]
    /\ item_capacities = Run1ItemCapacities
    /\ initial_budgets = Run1Budgets

\* C7: on the instance of the doctest (ami, tami, tzumi; x:2, y:1, z:3; budgets
\* 5, 4, 3) the search started at any prices of 1..5 ends converged, with x
\* given to at most 2 agents, y to at most 1 and z to at most 3.  (Stated for
\* the runs in which every agent can afford a bundle; the others are C3's.)
C7_Run1Converges ==
    (IsRun1 /\ pc \in Terminal /\ error # "TypeError") =>
        /\ pc = "returned"
        /\ \A course \in ItemSet : RawExcess(course) <= 0

\* C8: after convergence, student_best_bundle at the final prices gives the
\* allocation that was returned.
C8_OracleReproducesReturned ==
    pc = "returned" => student_best_bundle(prices, initial_budgets) = returned[1]

\* a run that converged and returned an allocation of non-empty bundles
C8_Witness ==
    /\ pc = "returned"
    /\ Len(returned) >= 1
    /\ \A student \in AgentSet : Len(returned[1][student].items) >= 1

\* C9: on convergence both the allocation and the price vector are returned.
C9_ReturnsAllocationAndPrices ==
    pc = "returned" =>
        /\ Len(returned) = 2
        /\ returned[1] = allocation
        /\ returned[2] = prices

\* C10: a run ends either converged or with an explicit SearchExhausted
\* failure.  (Stated for the runs in which every agent can afford a bundle;
\* the others are C3's.)
C10_ConvergedOrSearchExhausted ==
    (pc \in Terminal /\ error # "TypeError") =>
        (pc = "returned" \/ error = "SearchExhausted")

\* history is a prefix of history'
IsPrefix(s, t) == Len(s) <= Len(t) /\ SubSeq(t, 1, Len(s)) = s

\* C11: the tabu memory starts empty and never shrinks: every constraint in
\* the memory at one point of a run is still in it at every later point.
C11_MemoryStartsEmptyNeverShrinks ==
    /\ history = <<>>
    /\ [][IsPrefix(history, history')]_vars

\* the only iteration that reaches the merge of line 552 has ended there, and
\* the memory is as it was at the start of the iteration
C11_Witness ==
    /\ pc = "raised"
    /\ error = "AttributeError"
    /\ history = <<>>

\* the candidate lines 554-558 would select in this iteration, had line 552
\* extended the memory
selected_candidate ==
    find_min_error_prices(
        find_all_neighbors(<<>>, history \o find_all_equivalent_prices(allocation),
                           prices, delta, excess_demand_vector, allocation).neighbors)

\* C17: a non-converged iteration ends with the current prices replaced by
\* the candidate find_min_error_prices returns for the iteration's neighbor
\* list, and the loop goes on from there.
C17_PricesBecomeSelectedCandidate ==
    [][pc = "update" => (pc' = "loop" /\ prices' = selected_candidate)]_vars

\* C18: in a non-converged iteration the constraints of the current allocation
\* are merged into the tabu memory, once, before any neighbor is generated.
C18_ConstraintsMergedBeforeNeighbors ==
    [][pc = "update" =>
         /\ history' = history \o find_all_equivalent_prices(allocation)
         /\ neighbors' = <<>>
         /\ error' = "none"]_vars

\* C19: a call of find_gradient_neighbors appends exactly one candidate to
\* the neighbor list, whatever the tabu memory holds, and the candidate's price
\* of every item is max(0, price + delta * excess), where excess is the item's
\* entry of the excess-demand vector, 0 when it has none.
C19_GradientAppendsOneCandidate ==
    [][pc = "call" =>
         /\ Len(neighbors') = Len(neighbors) + 1
         /\ SubSeq(neighbors', 1, Len(neighbors)) = neighbors
         /\ \A item \in ItemSet :
              neighbors'[Len(neighbors')][item] =
                  Max(0, prices[item] + delta *
                         (IF item \in DOMAIN excess_demand_vector
                          THEN excess_demand_vector[item] ELSE 0))]_vars

\* the call appended a candidate the memory excludes, to a list that was not
\* empty; one item has no entry in the vector and one price was held at 0
C19_Witness ==
    /\ pc = "find_gradient_neighbors"
    /\ Len(neighbors) = 2
    /\ any_history(history, neighbors[2])
    /\ \E item \in ItemSet : item \notin DOMAIN excess_demand_vector
    /\ \E item \in DOMAIN excess_demand_vector :
         prices[item] + delta * excess_demand_vector[item] < 0

\* C15 as the specification states it: on an instance with the single item x
\* of capacity 0 and one agent of capacity at least 1 who values x,
\* student_best_bundle returns the empty bundle for the agent, for every
\* price of x and every budget.  (Stated for the calls in which the agent can
\* pay for x; the others are C3's.)
C15_EmptyBundleWithoutSeat ==
    (/\ pc = "student_best_bundle"
     /\ item_capacities["x"] = 0
     /\ prices["x"] <= initial_budgets["ami"]) =>
        allocation["ami"] = Tuple(<<>>)

\* C15: on an instance with the single item x of capacity 0 and one agent of
\* capacity at least 1 who values x, student_best_bundle returns the bundle
\* (x) for the agent exactly when the price of x is at most the budget; the
\* capacity of x plays no part.
C15_BundleExactlyWhenAffordable ==
    (pc = "student_best_bundle" /\ item_capacities["x"] = 0) =>
        (allocation["ami"] = Tuple(<<"x">>) <=> prices["x"] <= initial_budgets["ami"])

\* the agent was given x, which has no seat, at a positive price
C15_Witness ==
    /\ pc = "student_best_bundle"
    /\ item_capacities["x"] = 0
    /\ agent_capacities["ami"] >= 1
    /\ valuations["ami"]["x"] > 0
    /\ prices["x"] > 0
    /\ allocation["ami"] = Tuple(<<"x">>)

\* C16: a run whose input holds a budget that is not positive is rejected
\* with InvalidInput before the first iteration: no allocation is computed,
\* the prices and the tabu memory do not change, and the run ends with
\* that error.
C16_InvalidInputRejected ==
    (\E student \in AgentSet : initial_budgets[student] <= 0) =>
        /\ \A student \in AgentSet : allocation[student] = Unbound
        /\ pc \in Terminal => error = "InvalidInput"

\* C12: the price vector selected as the next state is not excluded by the
\* tabu memory, the constraints of the current allocation included, whether
\* it is the gradient candidate or an individual-adjustment candidate.
C12_SelectedNotTabu ==
    pc = "find_min_error_prices" => ~any_history(history, returned[1])

\* a price vector without a negative price
NonNegative(p) == \A item \in DOMAIN p : p[item] >= 0

\* C13: every price of the current price vector and of every candidate
\* generated (gradient, incremented or zeroed) is at least 0, and so is every
\* price of the candidate selected.
C13_PricesNonNegative ==
    /\ NonNegative(prices)
    /\ \A k \in 1..Len(neighbors) : NonNegative(neighbors[k])
    /\ pc = "find_min_error_prices" => NonNegative(returned[1])

\* neighbors were generated from prices at which the gradient step of some
\* item would go below 0, and a zeroed candidate is among them
C13_Witness ==
    /\ pc = "find_min_error_prices"
    /\ \E item \in ItemSet : prices[item] + delta * excess_demand_vector[item] < 0
    /\ \E k \in 2..Len(neighbors) : \E item \in ItemSet :
           prices[item] > 0 /\ neighbors[k] = [prices EXCEPT ![item] = 0]
    /\ NonNegative(returned[1])

\* C14: for every item whose raw excess demand at the current prices is
\* strictly positive, the price in the vector selected as the next state is
\* at least the price in the current vector (delta > 0).
C14_PositiveDemandPriceNotLowered ==
    (pc = "find_min_error_prices" /\ delta > 0) =>
        \A course \in ItemSet :
            RawExcess(course) > 0 => returned[1][course] >= prices[course]

\* a vector was selected in which an item in positive raw excess demand costs
\* more than before, while another item was in negative demand
C14_Witness ==
    /\ pc = "find_min_error_prices"
    /\ \E course \in ItemSet :
           RawExcess(course) > 0 /\ returned[1][course] > prices[course]
    /\ \E course \in ItemSet : RawExcess(course) < 0

\* C20: the gradient candidate put in the neighbor list is, for every item,
\* max(0, p + delta * z), z being the raw (unclipped) excess demand of the
\* current allocation (delta > 0).
C20_GradientOfRawExcessDemand ==
    (pc \in {"find_all_neighbors", "find_min_error_prices"} /\ delta > 0) =>
        /\ Len(neighbors) >= 1
        /\ neighbors[1] =
               [item \in ItemSet |-> Max(0, prices[item] + delta * RawExcess(item))]

\* the gradient candidate was generated where the clipped and the raw excess
\* demand differ (price 0, seats left) and where a positive price went down
C20_Witness ==
    /\ pc = "find_all_neighbors"
    /\ Len(neighbors) >= 1
    /\ \E item \in ItemSet :
           prices[item] = 0 /\ RawExcess(item) < 0 /\ excess_demand_vector[item] = 0
    /\ \E item \in ItemSet : prices[item] > 0 /\ neighbors[1][item] < prices[item]

\* q is the current price vector with the price of course raised by some
\* number of unit steps
IsIncrementOf(q, course) ==
    \E n \in 1..range_steps : q = [prices EXCEPT ![course] = @ + n]

\* the candidates of the list that raise the price of course
IncrementsOf(course) ==
    {k \in 1..Len(neighbors) : IsIncrementOf(neighbors[k], course)}

DropsForOneStudent(new, course) ==
    \E student \in AgentSet :
        /\ \A other \in AgentSet \ {student} : new[other] = allocation[other]
        /\ new[student] # allocation[student]
        /\ In(course, allocation[student].items)
        /\ ~In(course, new[student].items)

C23_IncrementedCandidatesFrame ==
    [][pc = "call" =>
         /\ prices' = prices
         /\ \A k \in 2..Len(neighbors') :
                \/ \E course \in ItemSet :
                       /\ excess_demand_vector'[course] > 0
                       /\ \E n \in 1..range_steps :
                              neighbors'[k] = [prices EXCEPT ![course] = @ + n]
                \/ \E course \in ItemSet :
                       /\ excess_demand_vector'[course] < 0
                       /\ neighbors'[k] = [prices EXCEPT ![course] = 0]
         /\ (\A k \in 2..Len(neighbors') : \E course \in ItemSet :
                 neighbors'[k] = [prices EXCEPT ![course] = 0]) => error' = "none"]_vars

\* how many times q is in the list
Occurrences(q, nbrs) == Cardinality({k \in 1..Len(nbrs) : nbrs[k] = q})

\* C24: for every item in negative excess demand the current price vector
\* with that item's price set to 0 is added to the neighbor list exactly when
\* the tabu memory does not exclude it and it is not in the list already, and
\* then once; the list never holds two equal vectors.
C24_ZeroedCandidateAddedOnce ==
    [][pc = "call" =>
         /\ \A course \in ItemSet :
                excess_demand_vector'[course] < 0 =>
                    LET zeroed == [prices EXCEPT ![course] = 0]
                    IN  Occurrences(zeroed, neighbors') =
                            Occurrences(zeroed, neighbors)
                            + (IF /\ ~any_history(history, zeroed)
                                  /\ Occurrences(zeroed, neighbors) = 0
                               THEN 1 ELSE 0)
         /\ \A k \in 1..Len(neighbors') : Occurrences(neighbors'[k], neighbors') = 1]_vars

\* the square of the L2 norm of the clipped excess demand of the oracle's
\* allocation at q
norm_at(q) == sum_squares_of(clipped_excess_demand(q, student_best_bundle(q, initial_budgets)))

\* C25: for a non-empty neighbor list find_min_error_prices returns a
\* candidate of the list whose norm is minimal over the list, and the one
\* earliest in the list among those of minimal norm.
C25_MinErrorEarliest ==
    [][(pc = "find_all_neighbors" /\ neighbors # <<>>) =>
         /\ pc' = "find_min_error_prices"
         /\ \E k \in 1..Len(neighbors) :
                /\ returned' = <<neighbors[k]>>
                /\ \A j \in 1..Len(neighbors) : norm_at(neighbors[k]) <= norm_at(neighbors[j])
                /\ \A j \in 1..(k - 1) : norm_at(neighbors[j]) > norm_at(neighbors[k])]_vars

\* the price vectors at which the constraints are evaluated
TestPrices == [ItemSet -> DemandPriceGrid]

\* C26: the call emits one affordability constraint for each agent, and the
\* constraint of agent a holds at a price vector p exactly when the price of
\* a's own bundle at p is at most a's own budget.
C26_AffordabilityOfOwnBundle ==
    pc = "find_all_equivalent_prices" =>
        /\ Len(history) >= Len(agents)
        /\ \A k \in 1..Len(agents) : \A p \in TestPrices :
               apply_constraint(history[k], p)
                   <=> price_combination(p, allocation[agents[k]].items)
                           <= initial_budgets[agents[k]]

\* the bundles of student for which a dominance constraint is due, in the
\* order of the combinations: those that differ from the student's bundle and
\* are worth at least as much
alternatives(student) ==
    SelectSeq(combinations_courses_list(student),
              LAMBDA S : /\ sorted_list(S) # sorted_list(allocation[student].items)
                         /\ agent_bundle_value(student, S)
                                >= agent_bundle_value(student, allocation[student].items))

\* the students and bundles of the dominance constraints, students k.. on
RECURSIVE dominated(_)
dominated(k) ==
    IF k > Len(agents) THEN <<>>
    ELSE [n \in 1..Len(alternatives(agents[k])) |->
             [student |-> agents[k], bundle |-> alternatives(agents[k])[n]]]
         \o dominated(k + 1)

\* C27: after the affordability constraints the call emits one dominance
\* constraint for each agent a and each bundle S of 1..capacity(a) items that
\* differs from a's bundle and is worth at least as much to a, and no other;
\* the constraint of a and S holds at p exactly when the price of S at p is
\* at least a's budget.
C27_DominanceOfEachAlternative ==
    pc = "find_all_equivalent_prices" =>
        LET due == dominated(1)
        IN  /\ Len(history) = Len(agents) + Len(due)
            /\ \A n \in 1..Len(due) : \A p \in TestPrices :
                   apply_constraint(history[Len(agents) + n], p)
                       <=> price_combination(p, due[n].bundle)
                               >= initial_budgets[due[n].student]

\* C28: every price vector at which all the constraints derived from the
\* oracle's allocation hold gives that allocation under the oracle.
C28_ConstraintsReproduceAllocation ==
    pc = "find_all_equivalent_prices" =>
        \A p \in TestPrices :
            (\A k \in 1..Len(history) : apply_constraint(history[k], p))
                => student_best_bundle(p, initial_budgets) = allocation

====
